---- MODULE Spec2Model ----
(***************************************************************************)
(* A model of zeroconf's incoming-packet decoder,                          *)
(* src/zeroconf/_protocol/incoming.py (class DNSIncoming).                 *)
(*                                                                         *)
(* A packet is a sequence of bytes (0..255).  Python offsets are 0-based,  *)
(* TLA+ sequences 1-based: At(d, i) is Python's d[i].  Text is a sequence  *)
(* of Unicode code points.  A Python exception is the name of its class in *)
(* the field err of a result; "" means the call returned.                  *)
(***************************************************************************)
EXTENDS Integers, Sequences, FiniteSets, TLC

(***************************************************************************)
(* Program constants.                                                      *)
(***************************************************************************)
DNS_COMPRESSION_HEADER_LEN == 1
DNS_COMPRESSION_POINTER_LEN == 2
MAX_DNS_LABELS == 128
MAX_NAME_LENGTH == 253

\* zeroconf/const.py (imported at incoming.py:40-54); the standard DNS values.
TYPE_A == 1
TYPE_CNAME == 5
TYPE_PTR == 12
TYPE_HINFO == 13
TYPE_TXT == 16
TYPE_AAAA == 28
TYPE_SRV == 33
TYPE_NSEC == 47
FLAGS_QR_MASK == 32768
FLAGS_QR_QUERY == 0
FLAGS_QR_RESPONSE == 32768
FLAGS_TC == 512

\* DECODE_EXCEPTIONS = (IndexError, struct.error, IncomingDecodeError)
DECODE_EXCEPTIONS == {"IndexError", "struct.error", "IncomingDecodeError"}

(***************************************************************************)
(* Bytes.                                                                  *)
(***************************************************************************)
Min(a, b) == IF a < b THEN a ELSE b

\* data[i]
At(d, i) == d[i + 1]

\* data[a:b] for 0 <= a <= b: a slice is clamped to the buffer, it never raises.
Slice(d, a, b) == SubSeq(d, a + 1, Min(b, Len(d)))

\* bit k (0 = least significant) of byte x
Bit(x, k) == (x \div (2 ^ k)) % 2

(***************************************************************************)
(* A loop of the program: Loop(Step, s) is the state in which the loop     *)
(* that starts in state s stops, Step being one iteration and s.more       *)
(* telling whether another iteration follows.  Iterate runs at most 2^k    *)
(* iterations and LoopFrom runs 2^k, then 2^(k+1), ... iterations until    *)
(* the loop stops, which keeps the evaluation shallow.                     *)
(***************************************************************************)
RECURSIVE Iterate(_, _, _)
Iterate(Step(_), s, k) ==
  IF ~s.more THEN s
  ELSE IF k = 0 THEN Step(s)
  ELSE Iterate(Step, Iterate(Step, s, k - 1), k - 1)

RECURSIVE LoopFrom(_, _, _)
LoopFrom(Step(_), s, k) == IF ~s.more THEN s ELSE LoopFrom(Step, Iterate(Step, s, k), k + 1)

Loop(Step(_), s) == LoopFrom(Step, s, 0)

(***************************************************************************)
(* bytes.decode('utf-8', ...): CPython's decoder.  Utf8Step decodes the    *)
(* character that starts at position i (1-based) of b: its code point cp,  *)
(* the bytes n it takes, and bad when the bytes are no valid character (n  *)
(* is then the part an error handler replaces).                            *)
(***************************************************************************)
IsCont(x) == x >= 128 /\ x <= 191

Utf8Bad(n) == [cp |-> 65533, n |-> n, bad |-> TRUE]

Utf8Step(b, i) ==
  LET c == b[i]
      avail == Len(b) - i + 1
  IN  IF c < 128 THEN [cp |-> c, n |-> 1, bad |-> FALSE]
      ELSE IF c < 194 \/ c > 244 THEN Utf8Bad(1)
      ELSE IF c < 224 THEN
        IF avail < 2 THEN Utf8Bad(avail)
        ELSE IF ~IsCont(b[i + 1]) THEN Utf8Bad(1)
        ELSE [cp |-> (c - 192) * 64 + (b[i + 1] - 128), n |-> 2, bad |-> FALSE]
      ELSE IF c < 240 THEN
        IF avail < 2 THEN Utf8Bad(avail)
        ELSE IF ~IsCont(b[i + 1]) \/ (c = 224 /\ b[i + 1] < 160)
                  \/ (c = 237 /\ b[i + 1] >= 160) THEN Utf8Bad(1)
        ELSE IF avail < 3 THEN Utf8Bad(avail)
        ELSE IF ~IsCont(b[i + 2]) THEN Utf8Bad(2)
        ELSE [cp |-> (c - 224) * 4096 + (b[i + 1] - 128) * 64 + (b[i + 2] - 128),
              n |-> 3, bad |-> FALSE]
      ELSE
        IF avail < 2 THEN Utf8Bad(avail)
        ELSE IF ~IsCont(b[i + 1]) \/ (c = 240 /\ b[i + 1] < 144)
                  \/ (c = 244 /\ b[i + 1] >= 144) THEN Utf8Bad(1)
        ELSE IF avail < 3 THEN Utf8Bad(avail)
        ELSE IF ~IsCont(b[i + 2]) THEN Utf8Bad(2)
        ELSE IF avail < 4 THEN Utf8Bad(avail)
        ELSE IF ~IsCont(b[i + 3]) THEN Utf8Bad(3)
        ELSE [cp |-> (c - 240) * 262144 + (b[i + 1] - 128) * 4096
                       + (b[i + 2] - 128) * 64 + (b[i + 3] - 128),
              n |-> 4, bad |-> FALSE]

\* One character more: s.i is the position of its first byte.
Utf8Append(b, s, c) ==
  [more |-> s.i + c.n <= Len(b), i |-> s.i + c.n, text |-> Append(s.text, c.cp),
   bad |-> s.bad \/ c.bad]

Utf8Decode(b) ==
  Loop(LAMBDA s : Utf8Append(b, s, Utf8Step(b, s.i)),
       [more |-> Len(b) > 0, i |-> 1, text |-> <<>>, bad |-> FALSE])

\* bytes.decode('utf-8', 'replace'): an invalid sequence becomes U+FFFD.
DecodeUtf8Replace(b) == Utf8Decode(b).text

\* bytes.decode('utf-8'): an invalid sequence raises UnicodeDecodeError.
DecodeUtf8Strict(b) ==
  IF Utf8Decode(b).bad THEN [err |-> "UnicodeDecodeError", text |-> <<>>]
  ELSE [err |-> "", text |-> Utf8Decode(b).text]

(***************************************************************************)
(* struct unpacking, big-endian.                                           *)
(***************************************************************************)
U16(d, off) == At(d, off) * 256 + At(d, off + 1)

\* struct 'i': a signed 32-bit integer in two's complement
I32(d, off) ==
  LET hi == U16(d, off)
      lo == U16(d, off + 2)
  IN  (IF hi >= 32768 THEN hi - 65536 ELSE hi) * 65536 + lo

\* Struct.unpack_from(data, off) raises struct.error unless size bytes follow off.
CanUnpack(d, off, size) == off + size <= Len(d)

(***************************************************************************)
(* Names.                                                                  *)
(***************************************************************************)
\* name_cache[k] = v
CachePut(cache, k, v) ==
  [o \in (DOMAIN cache) \cup {k} |-> IF o = k THEN v ELSE cache[o]]

\* name_cache.get(k, [])
CacheGet(cache, k) == IF k \in DOMAIN cache THEN cache[k] ELSE <<>>

\* ".".join(labels) + ".": every label is followed by a dot, but for no
\* label at all the name is "."
JoinStep(labels, s) ==
  [more |-> s.i < Len(labels), i |-> s.i + 1, name |-> s.name \o labels[s.i] \o <<46>>]

JoinName(labels) ==
  IF labels = <<>> THEN <<46>>
  ELSE Loop(LAMBDA s : JoinStep(labels, s), [more |-> TRUE, i |-> 1, name |-> <<>>]).name

NameRaise(e, off, labels, seen, cache) ==
  [err |-> e, off |-> off, labels |-> labels, seen |-> seen, cache |-> cache]

NameReturn(off, labels, seen, cache) ==
  [err |-> "", off |-> off, labels |-> labels, seen |-> seen, cache |-> cache]

\* labels.extend(linked_labels), the check of MAX_DNS_LABELS and the return
\* past the pointer (incoming.py:366-371)
extend_labels(off, labels, linked_labels, seen, cache) ==
  IF Len(labels \o linked_labels) > MAX_DNS_LABELS
    THEN NameRaise("IncomingDecodeError", off, labels \o linked_labels, seen, cache)
    ELSE NameReturn(off + DNS_COMPRESSION_POINTER_LEN, labels \o linked_labels, seen, cache)

\* as after_linked_labels, the labels of the referring name cached at link
after_linked_labels_accum(r, off, labels, link, cache) ==
  IF r.err # ""
    THEN NameRaise(r.err, off, labels, r.seen,
           IF link \in DOMAIN cache THEN CachePut(r.cache, link, r.labels) ELSE r.cache)
    ELSE extend_labels(off, labels, r.labels, r.seen,
                       CachePut(r.cache, link, labels \o r.labels))

\* After the recursive call r for the target of the pointer at off
\* (incoming.py:364-371).  When the call raised, an empty list that the cache
\* holds at link is the very list the call appended to.
after_linked_labels(r, off, labels, link, cache) ==
  IF r.err # ""
    THEN NameRaise(r.err, off, labels, r.seen,
           IF link \in DOMAIN cache THEN CachePut(r.cache, link, r.labels) ELSE r.cache)
    ELSE extend_labels(off, labels, r.labels, r.seen, CachePut(r.cache, link, r.labels))

\* the 14-bit target of the compression pointer at off
pointer_link(d, off) == (At(d, off) % 64) * 256 + At(d, off + 1)

\* as pointer_rejected, without the test of seen_pointers
pointer_rejected_unseen(d, off, link, seen) == link > Len(d) \/ link = off

\* the three tests of the target of the pointer at off (incoming.py:349-360)
pointer_rejected(d, off, link, seen) == link > Len(d) \/ link = off \/ link \in seen

\* the while loop is at off, where a literal label starts (0 < length < 0x40)
AtLabel(d, off) == off < Len(d) /\ At(d, off) > 0 /\ At(d, off) < 64

\* incoming.py:336-340, one literal label: decoded with errors='replace' from
\* a slice of the buffer, then off moves past it
label_step(d, s) ==
  [more |-> AtLabel(d, s.off + DNS_COMPRESSION_HEADER_LEN + At(d, s.off)),
   off |-> s.off + DNS_COMPRESSION_HEADER_LEN + At(d, s.off),
   labels |-> Append(s.labels,
                DecodeUtf8Replace(Slice(d, s.off + DNS_COMPRESSION_HEADER_LEN,
                                        s.off + DNS_COMPRESSION_HEADER_LEN + At(d, s.off))))]

\* the iterations of the while loop that read literal labels, from off on
literal_labels(d, off, labels) ==
  Loop(LAMBDA s : label_step(d, s), [more |-> AtLabel(d, off), off |-> off, labels |-> labels])

\* DNSIncoming._decode_labels_at_offset: the labels list and the seen_pointers
\* set are mutated in place, so they are part of the result, as is name_cache.
\* decode_at is the iteration of the while loop that does not read a literal
\* label, at s.off with the labels s.labels: the end of the buffer, the end of
\* the name, an unknown label type or a compression pointer.
RECURSIVE decode_labels_at_offset(_, _, _, _, _)
decode_at(d, cache, s, seen) ==
  IF s.off >= Len(d) THEN NameRaise("IncomingDecodeError", s.off, s.labels, seen, cache)
  ELSE IF At(d, s.off) = 0
    THEN NameReturn(s.off + DNS_COMPRESSION_HEADER_LEN, s.labels, seen, cache)
  ELSE IF At(d, s.off) < 192
    THEN NameRaise("IncomingDecodeError", s.off, s.labels, seen, cache)
  ELSE IF s.off + 1 >= Len(d) THEN NameRaise("IndexError", s.off, s.labels, seen, cache)
  ELSE IF pointer_rejected(d, s.off, pointer_link(d, s.off), seen)
    THEN NameRaise("IncomingDecodeError", s.off, s.labels, seen, cache)
  ELSE IF CacheGet(cache, pointer_link(d, s.off)) # <<>>
    THEN extend_labels(s.off, s.labels, CacheGet(cache, pointer_link(d, s.off)), seen, cache)
  ELSE after_linked_labels(
         decode_labels_at_offset(d, cache, pointer_link(d, s.off), <<>>,
                                 seen \cup {pointer_link(d, s.off)}),
         s.off, s.labels, pointer_link(d, s.off), cache)

decode_labels_at_offset(d, cache, off, labels, seen) ==
  decode_at(d, cache, literal_labels(d, off, labels), seen)

\* as read_name_labels, without the check of MAX_NAME_LENGTH
read_name_labels_nolimit(r, original_offset) ==
  IF r.err # ""
    THEN [err |-> r.err, offset |-> original_offset, cache |-> r.cache, name |-> <<>>]
  ELSE [err |-> "", offset |-> r.off,
        cache |-> CachePut(r.cache, original_offset, r.labels), name |-> JoinName(r.labels)]

\* DNSIncoming._read_name once the labels r were decoded from original_offset
\* (incoming.py:321-327).  A failed decode leaves self.offset alone; a name that
\* is too long is rejected after self.offset and the cache were written.
read_name_labels(r, original_offset) ==
  IF r.err # ""
    THEN [err |-> r.err, offset |-> original_offset, cache |-> r.cache, name |-> <<>>]
  ELSE IF Len(JoinName(r.labels)) > MAX_NAME_LENGTH
    THEN [err |-> "IncomingDecodeError", offset |-> r.off,
          cache |-> CachePut(r.cache, original_offset, r.labels), name |-> <<>>]
  ELSE [err |-> "", offset |-> r.off,
        cache |-> CachePut(r.cache, original_offset, r.labels), name |-> JoinName(r.labels)]

\* DNSIncoming._read_name at self.offset = offset: the new offset, the cache and
\* the name.
read_name(d, cache, offset) ==
  read_name_labels(decode_labels_at_offset(d, cache, offset, <<>>, {}), offset)

(***************************************************************************)
(* Record payloads.                                                        *)
(***************************************************************************)
\* DNSIncoming._read_string: a slice, which is shorter than length when the
\* buffer ends first; self.offset advances by length all the same.
read_string(d, offset, length) ==
  [info |-> Slice(d, offset, offset + length), offset |-> offset + length]

\* DNSIncoming._read_character_string: data[offset] raises IndexError past the end.
read_character_string(d, offset) ==
  IF offset >= Len(d) THEN [err |-> "IndexError", info |-> <<>>, offset |-> offset]
  ELSE [err |-> "", info |-> read_string(d, offset + 1, At(d, offset)).info,
        offset |-> read_string(d, offset + 1, At(d, offset)).offset]

\* The types one bitmap byte (index i of its window) marks present, most
\* significant bit first: byte & (0x80 >> bit) gives bit + window * 256 + i * 8.
RECURSIVE BitmapByteTypes(_, _, _, _)
BitmapByteTypes(byte, window, i, bit) ==
  IF bit > 7 THEN <<>>
  ELSE (IF Bit(byte, 7 - bit) = 1 THEN <<bit + window * 256 + i * 8>> ELSE <<>>)
       \o BitmapByteTypes(byte, window, i, bit + 1)

\* for i, byte in enumerate(bytes): the types of byte s.i (0-based) of a window
window_step(bytes, window, s) ==
  [more |-> s.i + 1 < Len(bytes), i |-> s.i + 1,
   rdtypes |-> s.rdtypes \o BitmapByteTypes(At(bytes, s.i), window, s.i, 0)]

\* rdtypes after the bytes of one window
window_types(bytes, window, rdtypes) ==
  Loop(LAMBDA s : window_step(bytes, window, s),
       [more |-> Len(bytes) > 0, i |-> 0, rdtypes |-> rdtypes]).rdtypes

\* One iteration of the while loop of _read_bitmap: window = data[offset],
\* bitmap_length = data[offset + 1], each an IndexError past the end; the
\* bitmap bytes are a slice.
bitmap_step(d, end, s) ==
  IF s.offset + 1 >= Len(d) THEN [s EXCEPT !.more = FALSE, !.err = "IndexError"]
  ELSE [more |-> s.offset + 2 + At(d, s.offset + 1) < end,
        err |-> "",
        offset |-> s.offset + 2 + At(d, s.offset + 1),
        rdtypes |-> window_types(Slice(d, s.offset + 2,
                                       s.offset + 2 + At(d, s.offset + 1)),
                                 At(d, s.offset), s.rdtypes)]

\* DNSIncoming._read_bitmap
read_bitmap(d, offset, end) ==
  Loop(LAMBDA s : bitmap_step(d, end, s),
       [more |-> offset < end, err |-> "", offset |-> offset, rdtypes |-> <<>>])

RecordRaise(e, offset, cache) == [err |-> e, offset |-> offset, cache |-> cache, rec |-> <<>>]

RecordReturn(rec, offset, cache) == [err |-> "", offset |-> offset, cache |-> cache, rec |-> rec]

\* The constructors of zeroconf/_dns.py, as the values they are given
\* (created = self.now, the same for every record of a message, is left out).
DNSQuestion(name, type, class) == [name |-> name, type |-> type, class |-> class]

DNSAddress(name, type, class, ttl, address) ==
  [kind |-> "DNSAddress", name |-> name, type |-> type, class |-> class, ttl |-> ttl,
   address |-> address]

DNSPointer(name, type, class, ttl, alias) ==
  [kind |-> "DNSPointer", name |-> name, type |-> type, class |-> class, ttl |-> ttl,
   alias |-> alias]

DNSText(name, type, class, ttl, text) ==
  [kind |-> "DNSText", name |-> name, type |-> type, class |-> class, ttl |-> ttl,
   text |-> text]

DNSService(name, type, class, ttl, priority, weight, port, server) ==
  [kind |-> "DNSService", name |-> name, type |-> type, class |-> class, ttl |-> ttl,
   priority |-> priority, weight |-> weight, port |-> port, server |-> server]

DNSHinfo(name, type, class, ttl, cpu, os) ==
  [kind |-> "DNSHinfo", name |-> name, type |-> type, class |-> class, ttl |-> ttl,
   cpu |-> cpu, os |-> os]

DNSNsec(name, type, class, ttl, next_name, rdtypes) ==
  [kind |-> "DNSNsec", name |-> name, type |-> type, class |-> class, ttl |-> ttl,
   next_name |-> next_name, rdtypes |-> rdtypes]

KnownTypes ==
  {TYPE_A, TYPE_CNAME, TYPE_PTR, TYPE_TXT, TYPE_SRV, TYPE_HINFO, TYPE_AAAA, TYPE_NSEC}

read_record_A(d, cache, offset, domain, type_, class_, ttl) ==
  RecordReturn(<<DNSAddress(domain, type_, class_, ttl, read_string(d, offset, 4).info)>>,
               read_string(d, offset, 4).offset, cache)

pointer_record(n, domain, type_, class_, ttl) ==
  IF n.err # "" THEN RecordRaise(n.err, n.offset, n.cache)
  ELSE RecordReturn(<<DNSPointer(domain, type_, class_, ttl, n.name)>>, n.offset, n.cache)

read_record_pointer(d, cache, offset, domain, type_, class_, ttl) ==
  pointer_record(read_name(d, cache, offset), domain, type_, class_, ttl)

read_record_TXT(d, cache, offset, domain, type_, class_, ttl, length) ==
  RecordReturn(<<DNSText(domain, type_, class_, ttl, read_string(d, offset, length).info)>>,
               read_string(d, offset, length).offset, cache)

\* self._unpack(UNPACK_3H, 6) advances self.offset before it unpacks
service_record(n, domain, type_, class_, ttl, priority, weight, port) ==
  IF n.err # "" THEN RecordRaise(n.err, n.offset, n.cache)
  ELSE RecordReturn(<<DNSService(domain, type_, class_, ttl, priority, weight, port, n.name)>>,
                    n.offset, n.cache)

read_record_SRV(d, cache, offset, domain, type_, class_, ttl) ==
  IF ~CanUnpack(d, offset, 6) THEN RecordRaise("struct.error", offset + 6, cache)
  ELSE service_record(read_name(d, cache, offset + 6), domain, type_, class_, ttl,
                      U16(d, offset), U16(d, offset + 2), U16(d, offset + 4))

\* each character string is read, then decoded as strict UTF-8
hinfo_os(s2, os, cache, domain, type_, class_, ttl, cpu) ==
  IF s2.err # "" THEN RecordRaise(s2.err, s2.offset, cache)
  ELSE IF os.err # "" THEN RecordRaise(os.err, s2.offset, cache)
  ELSE RecordReturn(<<DNSHinfo(domain, type_, class_, ttl, cpu.text, os.text)>>, s2.offset, cache)

hinfo_cpu(d, s1, cpu, cache, domain, type_, class_, ttl) ==
  IF s1.err # "" THEN RecordRaise(s1.err, s1.offset, cache)
  ELSE IF cpu.err # "" THEN RecordRaise(cpu.err, s1.offset, cache)
  ELSE hinfo_os(read_character_string(d, s1.offset),
                DecodeUtf8Strict(read_character_string(d, s1.offset).info),
                cache, domain, type_, class_, ttl, cpu)

read_record_HINFO(d, cache, offset, domain, type_, class_, ttl) ==
  hinfo_cpu(d, read_character_string(d, offset),
            DecodeUtf8Strict(read_character_string(d, offset).info),
            cache, domain, type_, class_, ttl)

read_record_AAAA(d, cache, offset, domain, type_, class_, ttl) ==
  RecordReturn(<<DNSAddress(domain, type_, class_, ttl, read_string(d, offset, 16).info)>>,
               read_string(d, offset, 16).offset, cache)

nsec_bitmap(b, n, domain, type_, class_, ttl) ==
  IF b.err # "" THEN RecordRaise(b.err, b.offset, n.cache)
  ELSE RecordReturn(<<DNSNsec(domain, type_, class_, ttl, n.name, b.rdtypes)>>,
                    b.offset, n.cache)

nsec_record(d, n, name_start, domain, type_, class_, ttl, length) ==
  IF n.err # "" THEN RecordRaise(n.err, n.offset, n.cache)
  ELSE nsec_bitmap(read_bitmap(d, n.offset, name_start + length), n,
                   domain, type_, class_, ttl)

read_record_NSEC(d, cache, offset, domain, type_, class_, ttl, length) ==
  nsec_record(d, read_name(d, cache, offset), offset, domain, type_, class_, ttl, length)

\* as read_record_unknown, the payload not skipped
read_record_unknown_stay(cache, offset, length) == RecordReturn(<<>>, offset, cache)

\* the types _read_record does not know: the payload is skipped
read_record_unknown(cache, offset, length) == RecordReturn(<<>>, offset + length, cache)

\* DNSIncoming._read_record: rec is <<>> for None, <<record>> otherwise.
read_record(d, cache, offset, domain, type_, class_, ttl, length) ==
  IF type_ = TYPE_A THEN read_record_A(d, cache, offset, domain, type_, class_, ttl)
  ELSE IF type_ \in {TYPE_CNAME, TYPE_PTR}
    THEN read_record_pointer(d, cache, offset, domain, type_, class_, ttl)
  ELSE IF type_ = TYPE_TXT
    THEN read_record_TXT(d, cache, offset, domain, type_, class_, ttl, length)
  ELSE IF type_ = TYPE_SRV THEN read_record_SRV(d, cache, offset, domain, type_, class_, ttl)
  ELSE IF type_ = TYPE_HINFO
    THEN read_record_HINFO(d, cache, offset, domain, type_, class_, ttl)
  ELSE IF type_ = TYPE_AAAA
    THEN read_record_AAAA(d, cache, offset, domain, type_, class_, ttl)
  ELSE IF type_ = TYPE_NSEC
    THEN read_record_NSEC(d, cache, offset, domain, type_, class_, ttl, length)
  ELSE read_record_unknown(cache, offset, length)

(***************************************************************************)
(* Header and questions.                                                   *)
(***************************************************************************)
\* One DNSQuestion(self._read_name(), *self._unpack(UNPACK_HH, 4)) of the list
\* that _read_questions builds, nm being the name read.  _unpack advances
\* self.offset before it unpacks.
question_after_name(d, nm, s) ==
  IF nm.err # ""
    THEN [s EXCEPT !.more = FALSE, !.err = nm.err, !.offset = nm.offset, !.cache = nm.cache]
  ELSE IF ~CanUnpack(d, nm.offset, 4)
    THEN [s EXCEPT !.more = FALSE, !.err = "struct.error", !.offset = nm.offset + 4,
                   !.cache = nm.cache]
  ELSE [more |-> s.n > 1, err |-> "", offset |-> nm.offset + 4, cache |-> nm.cache, n |-> s.n - 1,
        questions |-> Append(s.questions,
                        DNSQuestion(nm.name, U16(d, nm.offset), U16(d, nm.offset + 2)))]

\* DNSIncoming._read_questions: n questions from offset on.  The list is
\* assigned to self.questions only when every question was read.
questions_read(s) ==
  [err |-> s.err, offset |-> s.offset, cache |-> s.cache,
   questions |-> IF s.err = "" THEN s.questions ELSE <<>>]

read_questions(d, cache, offset, n) ==
  questions_read(
    Loop(LAMBDA s : question_after_name(d, read_name(d, s.cache, s.offset), s),
         [more |-> n > 0, err |-> "", offset |-> offset, cache |-> cache, n |-> n,
          questions |-> <<>>]))

\* One iteration of the loop of DNSIncoming._read_others (incoming.py:230-251).
\* fatal: the exception err leaves _read_others (the name or the fixed prefix
\* could not be read, or the payload raised something that is not one of
\* DECODE_EXCEPTIONS).  prefix: the fixed prefix was read, with type_ and length
\* in it and self.offset = prefix_end after it; payload_err is what _read_record
\* raised.

\* the name nm was read, the fixed prefix was not: e leaves the loop
prefix_raise(e, nm) ==
  [err |-> e, fatal |-> TRUE, offset |-> nm.offset, cache |-> nm.cache, rec |-> <<>>,
   prefix |-> FALSE, type_ |-> 0, length |-> 0, prefix_end |-> 0, payload_err |-> ""]

\* incoming.py:233-251: r is what _read_record did from off10 on
record_outcome(r, type_, length, off10) ==
  [prefix |-> TRUE, type_ |-> type_, length |-> length, prefix_end |-> off10,
   payload_err |-> r.err, cache |-> r.cache,
   err |-> IF r.err \in DECODE_EXCEPTIONS THEN "" ELSE r.err,
   fatal |-> r.err # "" /\ r.err \notin DECODE_EXCEPTIONS,
   offset |-> IF r.err \in DECODE_EXCEPTIONS THEN off10 + length ELSE r.offset,
   rec |-> IF r.err = "" THEN r.rec ELSE <<>>]

\* incoming.py:231-236: UNPACK_HHiH at self.offset, then _read_record
record_after_name(d, nm) ==
  IF nm.err # "" THEN prefix_raise(nm.err, nm)
  ELSE IF ~CanUnpack(d, nm.offset, 10) THEN prefix_raise("struct.error", nm)
  ELSE record_outcome(
         read_record(d, nm.cache, nm.offset + 10, nm.name, U16(d, nm.offset),
                     U16(d, nm.offset + 2), I32(d, nm.offset + 4), U16(d, nm.offset + 8)),
         U16(d, nm.offset), U16(d, nm.offset + 8), nm.offset + 10)

read_others_record(d, cache, offset) == record_after_name(d, read_name(d, cache, offset))

\* The loop of DNSIncoming._read_others as a whole: n iterations from offset
\* on.  r is what one iteration did.
others_step(r, s) ==
  [more |-> ~r.fatal /\ s.n > 1, err |-> r.err, offset |-> r.offset, cache |-> r.cache,
   n |-> s.n - 1, answers |-> s.answers \o r.rec]

read_others(d, cache, offset, n) ==
  Loop(LAMBDA s : others_step(read_others_record(d, s.cache, s.offset), s),
       [more |-> n > 0, err |-> "", offset |-> offset, cache |-> cache, n |-> n,
        answers |-> <<>>])

\* f & mask for a mask of one bit
AndBit(f, mask) == ((f \div mask) % 2) * mask

is_query(f) == AndBit(f, FLAGS_QR_MASK) = FLAGS_QR_QUERY

is_response(f) == AndBit(f, FLAGS_QR_MASK) = FLAGS_QR_RESPONSE

truncated(f) == AndBit(f, FLAGS_TC) = FLAGS_TC

(***************************************************************************)
(* The packets the model decodes.                                          *)
(***************************************************************************)
\* How many times the caller reads answers.
MaxAccess == 2

\* The wire format, to build packets with.
B16(n) == <<n \div 256, n % 256>>

HeaderId(n, fl, qd, an, ns, ar) ==
  B16(n) \o B16(fl) \o B16(qd) \o B16(an) \o B16(ns) \o B16(ar)

Header(fl, qd, an, ns, ar) == HeaderId(4660, fl, qd, an, ns, ar)

Label(bytes) == <<Len(bytes)>> \o bytes

Pointer(target) == <<192 + target \div 256, target % 256>>

\* a resource record of class IN with a TTL of 120 s and a declared rdlength
RR(name, type_, rdlength, rdata) ==
  name \o B16(type_) \o B16(1) \o <<0, 0, 0, 120>> \o B16(rdlength) \o rdata

Question(name, type_) == name \o B16(type_) \o B16(1)

\* bytes, n times over
Repeat(bytes, n) == [i \in 1..(n * Len(bytes)) |-> bytes[((i - 1) % Len(bytes)) + 1]]

RECURSIVE Concat(_)
Concat(seqs) == IF seqs = <<>> THEN <<>> ELSE Head(seqs) \o Concat(Tail(seqs))

\* the name a.b. at offset 12 (b. at 14), as the first question or owner puts it
NameAB == Label(<<97>>) \o Label(<<98>>) \o <<0>>

\* One record of every kind after a name at offset 12; the names of the
\* records point into it and into each other.
RecPTR == RR(Pointer(12), TYPE_PTR, 4, Label(<<99>>) \o Pointer(12))
RecSRV(at) == RR(Pointer(at), TYPE_SRV, 10, B16(0) \o B16(0) \o B16(80) \o Label(<<104>>) \o Pointer(14))
RecTXT == RR(Pointer(12), TYPE_TXT, 3, <<2, 120, 121>>)
RecA == RR(Label(<<104>>) \o Pointer(14), TYPE_A, 4, <<10, 0, 0, 1>>)
RecHINFO == RR(Pointer(14), TYPE_HINFO, 6, Label(<<99, 112>>) \o Label(<<195, 169>>))
RecNSEC == RR(Pointer(12), TYPE_NSEC, 5, Pointer(12) \o <<0, 1, 64>>)
RecAAAA == RR(Pointer(12), TYPE_AAAA, 16, Repeat(<<32, 1>>, 8))
RecUnknown == RR(Pointer(14), 99, 2, <<7, 7>>)

\* a query: one question, then known answers
QueryBody(at) == <<RecPTR, RecSRV(at + 12), RecUnknown, RecA>>
QueryMsg ==
  Header(0, 1, 2, 1, 1) \o Question(NameAB, TYPE_PTR) \o Concat(QueryBody(21))

\* a response: no question, the first record owns the name at offset 12
ResponseBody == <<RR(NameAB, TYPE_TXT, 3, <<2, 120, 121>>), RecHINFO, RecNSEC, RecUnknown,
                  RecPTR, RecAAAA>>
ResponseMsg == Header(33792, 0, 4, 1, 1) \o Concat(ResponseBody)

\* every packet cut short
Prefixes(m) == { SubSeq(m, 1, k) : k \in 0..Len(m) }

\* one byte of the packet replaced
MutationBytes == {0, 1, 64, 192, 255}
Mutations(m) == { [m EXCEPT ![i] = v] : i \in 1..Len(m), v \in MutationBytes }

\* Names at the limits.  LongName(last) has three labels of 63 characters and
\* one of last characters: 193 + last characters with its dots, 253 for last =
\* 60.  ManyLabels(n) has n labels of one character: 2 * n characters.
MaxLastLabel == 62
MaxChainLabels == 65

LastLabels == (MaxLastLabel - 3)..MaxLastLabel

ChainLabels == (MaxChainLabels - 3)..MaxChainLabels

LongName(last) == Repeat(Label(Repeat(<<97>>, 63)), 3) \o Label(Repeat(<<98>>, last)) \o <<0>>

ManyLabels(n) == Repeat(Label(<<99>>), n)

\* a question with a long name, then the bytes of a record of the root name
LongQuestionMsg(last) ==
  Header(0, 1, 1, 0, 0) \o LongName(last) \o RR(<<0>>, TYPE_A, 4, <<10, 0, 0, 1>>)

\* a response whose first record owns a long name and whose second points at it
LongOwnerMsg(last) ==
  Header(33792, 0, 2, 0, 0) \o RR(LongName(last), TYPE_TXT, 1, <<0>>)
    \o RR(Pointer(12), TYPE_PTR, 4, Label(<<120>>) \o Pointer(12))

\* a response whose first record owns 64 labels at offset 12 and whose second
\* owns n labels and a pointer to them, and is followed by a third record
ChainMsg(n) ==
  Header(33792, 0, 3, 0, 0) \o RR(ManyLabels(64) \o <<0>>, TYPE_TXT, 1, <<0>>)
    \o RR(ManyLabels(n) \o Pointer(12), TYPE_A, 4, <<10, 0, 0, 2>>)
    \o RR(Pointer(12), TYPE_A, 4, <<10, 0, 0, 3>>)

LongNames ==
  { LongQuestionMsg(n) : n \in LastLabels }
    \cup { LongOwnerMsg(n) : n \in LastLabels }
    \cup { ChainMsg(n) : n \in ChainLabels }

\* Payloads that _read_record fails to decode wherever they stand, with at
\* the offset at of their first byte: an unknown label type, a pointer to
\* itself, a pointer past the end, two pointers to each other.
BadNames(at) == <<<<64>>, Pointer(at), <<255, 255>>, Pointer(at + 2) \o Pointer(at),
                  Label(<<97>>) \o <<128>>>>

BadTypes == <<TYPE_PTR, TYPE_CNAME, TYPE_SRV, TYPE_NSEC>>

\* the i-th bad payload inside a record of type BadTypes[t] owned by the name
\* at 12
BadRecord(t, i, at) ==
  IF BadTypes[t] = TYPE_SRV
    THEN RR(Pointer(12), BadTypes[t], 6 + Len(BadNames(at + 18)[i]),
            B16(1) \o B16(2) \o B16(3) \o BadNames(at + 18)[i])
    ELSE RR(Pointer(12), BadTypes[t], Len(BadNames(at + 12)[i]), BadNames(at + 12)[i])

GoodRecords == <<RecTXT, RecA, RecNSEC, RecAAAA>>

\* The cases of a message of three records after a question (nq = 1) or a
\* fourth record (nq = 0): the records GoodRecords[g] and GoodRecords[g + 2],
\* and as k-th of the three a record of type BadTypes[t] that does not decode
\* although its rdlength is right (k = 0: no such record).
ThreeRecordCases == [nq : {0, 1}, g : {1, 2}, k : 0..3, t : 1..4, i : 1..5]

\* the id of the message of a case, and the case of an id
CaseId(c) ==
  8192 + (((c.nq * 2 + (c.g - 1)) * 4 + c.k) * 4 + (c.t - 1)) * 5 + (c.i - 1)

CaseOf(n) ==
  [nq |-> ((n - 8192) \div 160) % 2, g |-> 1 + (((n - 8192) \div 80) % 2),
   k |-> ((n - 8192) \div 20) % 4, t |-> 1 + (((n - 8192) \div 5) % 4),
   i |-> 1 + ((n - 8192) % 5)]

CaseIds == { CaseId(c) : c \in ThreeRecordCases }

CaseParts(c, pre, r1, r2) ==
  IF c.k = 0 THEN pre \o r1 \o r2
  ELSE IF c.k = 1 THEN pre \o BadRecord(c.t, c.i, Len(pre)) \o r1 \o r2
  ELSE IF c.k = 2 THEN pre \o r1 \o BadRecord(c.t, c.i, Len(pre) + Len(r1)) \o r2
  ELSE pre \o r1 \o r2 \o BadRecord(c.t, c.i, Len(pre) + Len(r1) + Len(r2))

CaseMsg(c) ==
  CaseParts(c,
            HeaderId(CaseId(c), 33792, c.nq, (IF c.k = 0 THEN 2 ELSE 3) + (1 - c.nq), 0, 0)
              \o (IF c.nq = 1 THEN Question(NameAB, TYPE_PTR)
                  ELSE RR(NameAB, TYPE_TXT, 0, <<>>)),
            GoodRecords[c.g], GoodRecords[c.g + 2])

\* the case of the same message without its k-th record
CaseRest(c) == [c EXCEPT !.k = 0]

\* a HINFO record whose first character string is the byte b, between two
\* other records, in a query (nq = 1) and in a response without questions
\* (nq = 0)
HinfoMsg(nq, b) ==
  Header(IF nq = 1 THEN 0 ELSE 33792, nq, 4 - nq, 0, 0)
    \o (IF nq = 1 THEN Question(NameAB, TYPE_PTR) ELSE RR(NameAB, TYPE_TXT, 0, <<>>))
    \o RecTXT \o RR(Pointer(12), TYPE_HINFO, 4, <<1, b, 1, 99>>) \o RecA

HinfoMsgs == { HinfoMsg(nq, b) : nq \in {0, 1}, b \in {99, 128, 255} }

\* a query whose second record owns a pointer into the payload of the first,
\* where a pointer to the name of the question stands
TwoHopMsg ==
  Header(0, 1, 2, 0, 0) \o Question(NameAB, TYPE_PTR)
    \o RR(Pointer(12), TYPE_TXT, 2, Pointer(12)) \o RR(Pointer(33), TYPE_A, 4, <<10, 0, 0, 4>>)

Corpus == Prefixes(QueryMsg) \cup Prefixes(ResponseMsg)
          \cup Mutations(QueryMsg) \cup Mutations(ResponseMsg)
          \cup LongNames \cup HinfoMsgs \cup {TwoHopMsg}
          \cup { CaseMsg(c) : c \in ThreeRecordCases }

(***************************************************************************)
(* The decoder as a state machine: the fields of one DNSIncoming, and      *)
(*   pc        "new" (the fields are set, _initial_parse has not run),     *)
(*             "others" (inside the loop of _read_others), "ready" (the    *)
(*             constructor or the answers getter has returned or raised to *)
(*             the caller), "failed" (the constructor raised: no object);  *)
(*   caller    who called _read_others: "initial_parse" or "answers";      *)
(*   remaining the iterations the loop of _read_others has left;           *)
(*   returned  what the accesses to answers returned so far, in order;     *)
(*   raised    the exception that last reached the caller, "" if none;     *)
(*   accesses  the number of accesses to answers so far.                   *)
(***************************************************************************)
VARIABLES data, offset, name_cache, questions, answers, id, flags, num_questions,
          num_answers, num_authorities, num_additionals, valid, did_read_others,
          pc, caller, remaining, returned, raised, accesses

\* One call of _read_name, statement by statement: the frames of
\* _decode_labels_at_offset (off, labels, and whether labels is a list the
\* cache holds), seen_pointers, where the call is, the offset it started at,
\* what it gave, and how many calls were made.
VARIABLES frames, seen_pointers, name_pc, original_offset, name_read, reads, cache_before

namevars == <<frames, seen_pointers, name_pc, original_offset, name_read, reads,
              cache_before>>

fields == <<offset, name_cache, questions, answers, id, flags, num_questions,
            num_answers, num_authorities, num_additionals, valid, did_read_others>>

header == <<id, flags, num_questions, num_answers, num_authorities, num_additionals>>

vars == <<data, fields, pc, caller, remaining, returned, raised, accesses, namevars>>

\* DNSIncoming.__init__, up to the call of _initial_parse (incoming.py:102-118)
InitFields ==
  /\ offset = 0
  /\ name_cache = <<>>
  /\ questions = <<>>
  /\ answers = <<>>
  /\ id = 0
  /\ flags = 0
  /\ num_questions = 0
  /\ num_answers = 0
  /\ num_authorities = 0
  /\ num_additionals = 0
  /\ valid = FALSE
  /\ did_read_others = FALSE
  /\ pc = "new"
  /\ caller = ""
  /\ remaining = 0
  /\ returned = <<>>
  /\ raised = ""
  /\ accesses = 0

\* no call of _read_name is under way
NameIdle ==
  /\ frames = <<>>
  /\ seen_pointers = {}
  /\ name_pc = "idle"
  /\ original_offset = 0
  /\ name_read = [err |-> "", offset |-> 0, name |-> <<>>]
  /\ reads = 0
  /\ cache_before = <<>>

Init == data \in Corpus /\ InitFields /\ NameIdle

\* _initial_parse after _read_header: q is what _read_questions did.  A
\* message without questions goes on to _read_others, whose loop the actions
\* ReadOthersRecord and ReadOthersReturn run, and valid is set after it.
InitialParseQuestions(q) ==
  /\ offset' = q.offset
  /\ name_cache' = q.cache
  /\ questions' = q.questions
  /\ IF q.err # ""
       THEN /\ pc' = "ready"
            /\ UNCHANGED <<valid, did_read_others, caller, remaining>>
       ELSE IF num_questions' = 0
         THEN /\ did_read_others' = TRUE
              /\ remaining' = num_answers' + num_authorities' + num_additionals'
              /\ caller' = "initial_parse"
              /\ pc' = "others"
              /\ UNCHANGED valid
         ELSE /\ valid' = TRUE
              /\ pc' = "ready"
              /\ UNCHANGED <<did_read_others, caller, remaining>>

\* DNSIncoming._initial_parse inside the try of __init__: _read_header, then
\* _read_questions.  A DECODE_EXCEPTIONS exception ends __init__ normally.
InitialParse ==
  /\ pc = "new"
  /\ UNCHANGED <<data, answers, returned, raised, accesses, namevars>>
  /\ IF ~CanUnpack(data, 0, 12)
       THEN \* _unpack advanced self.offset, then UNPACK_6H raised struct.error
            /\ offset' = 12
            /\ pc' = "ready"
            /\ UNCHANGED <<name_cache, questions, header, valid, did_read_others,
                           caller, remaining>>
       ELSE /\ id' = U16(data, 0)
            /\ flags' = U16(data, 2)
            /\ num_questions' = U16(data, 4)
            /\ num_answers' = U16(data, 6)
            /\ num_authorities' = U16(data, 8)
            /\ num_additionals' = U16(data, 10)
            /\ InitialParseQuestions(read_questions(data, name_cache, 12, U16(data, 4)))

\* as Answers, without the test of self._did_read_others
AnswersRereads ==
  /\ pc = "ready"
  /\ accesses < MaxAccess
  /\ accesses' = accesses + 1
  /\ UNCHANGED <<data, offset, name_cache, questions, answers, header, valid, raised,
                 namevars>>
  /\ did_read_others' = TRUE
  /\ remaining' = num_answers + num_authorities + num_additionals
  /\ caller' = "answers"
  /\ pc' = "others"
  /\ UNCHANGED returned

\* The answers property: the first access of a message whose records were not
\* read calls _read_others; every other access returns self._answers.
Answers ==
  /\ pc = "ready"
  /\ accesses < MaxAccess
  /\ accesses' = accesses + 1
  /\ UNCHANGED <<data, offset, name_cache, questions, answers, header, valid, raised,
                 namevars>>
  /\ IF ~did_read_others
       THEN /\ did_read_others' = TRUE
            /\ remaining' = num_answers + num_authorities + num_additionals
            /\ caller' = "answers"
            /\ pc' = "others"
            /\ UNCHANGED returned
       ELSE /\ returned' = Append(returned, answers)
            /\ UNCHANGED <<did_read_others, remaining, caller, pc>>

\* One iteration of the loop of _read_others, r being what it did.  An
\* exception that leaves the loop is caught by the caller when it is one of
\* DECODE_EXCEPTIONS: __init__ then returns with valid unset, answers returns
\* self._answers.  Any other exception reaches the caller of __init__ (which
\* gets no object) or of answers.
ReadOthersEffect(r) ==
  /\ offset' = r.offset
  /\ name_cache' = r.cache
  /\ answers' = answers \o r.rec
  /\ IF ~r.fatal
       THEN /\ remaining' = remaining - 1
            /\ UNCHANGED <<pc, returned, raised>>
       ELSE /\ remaining' = 0
            /\ IF r.err \in DECODE_EXCEPTIONS
                 THEN /\ pc' = "ready"
                      /\ returned' = IF caller = "answers"
                                       THEN Append(returned, answers) ELSE returned
                      /\ UNCHANGED raised
                 ELSE /\ pc' = IF caller = "answers" THEN "ready" ELSE "failed"
                      /\ raised' = r.err
                      /\ UNCHANGED returned

ReadOthersRecord ==
  /\ pc = "others"
  /\ remaining > 0
  /\ UNCHANGED <<data, questions, header, valid, did_read_others, caller, accesses,
                 namevars>>
  /\ ReadOthersEffect(read_others_record(data, name_cache, offset))

\* The loop of _read_others is over: _initial_parse sets valid, answers
\* returns self._answers.
ReadOthersReturn ==
  /\ pc = "others"
  /\ remaining = 0
  /\ pc' = "ready"
  /\ valid' = IF caller = "initial_parse" THEN TRUE ELSE valid
  /\ returned' = IF caller = "answers" THEN Append(returned, answers) ELSE returned
  /\ UNCHANGED <<data, offset, name_cache, questions, answers, header, did_read_others,
                 caller, remaining, raised, accesses, namevars>>

Next == InitialParse \/ Answers \/ ReadOthersRecord \/ ReadOthersReturn

Spec == Init /\ [][Next]_vars

(***************************************************************************)
(* _read_name and _decode_labels_at_offset statement by statement: any     *)
(* buffer of NameLen bytes at most, names read at any offsets one after    *)
(* the other, the cache kept from one read to the next.                    *)
(***************************************************************************)
NameLen == 4

MaxReads == 2

NameBytes == {0, 1, 2, 192}

NameBuffers == UNION { [1..n -> NameBytes] : n \in 0..NameLen }

rest == <<data, questions, answers, header, valid, did_read_others, pc, caller, remaining,
          returned, raised, accesses>>

NameInit == data \in NameBuffers /\ InitFields /\ NameIdle

\* the frame that runs
Top == frames[Len(frames)]

ReplaceTop(f) == [frames EXCEPT ![Len(frames)] = f]

\* _read_name up to its call of _decode_labels_at_offset (incoming.py:317-320),
\* the caller having left self.offset at o
ReadNameStart ==
  /\ name_pc = "idle"
  /\ reads < MaxReads
  /\ \E o \in 0..Len(data) :
       /\ offset' = o
       /\ original_offset' = o
       /\ frames' = <<[off |-> o, labels |-> <<>>, link |-> o, cached |-> FALSE]>>
  /\ seen_pointers' = {}
  /\ name_pc' = "loop"
  /\ reads' = reads + 1
  /\ cache_before' = name_cache
  /\ UNCHANGED <<rest, name_cache, name_read>>

\* an iteration of the while loop that reads a literal label (incoming.py:336-340)
DecodeLabel ==
  /\ name_pc = "loop"
  /\ AtLabel(data, Top.off)
  /\ frames' = ReplaceTop([Top EXCEPT
       !.off = Top.off + DNS_COMPRESSION_HEADER_LEN + At(data, Top.off),
       !.labels = Append(@, DecodeUtf8Replace(
                     Slice(data, Top.off + DNS_COMPRESSION_HEADER_LEN,
                           Top.off + DNS_COMPRESSION_HEADER_LEN + At(data, Top.off))))])
  /\ UNCHANGED <<rest, offset, name_cache, seen_pointers, name_pc, original_offset,
                 name_read, reads, cache_before>>

\* length == 0: return off + DNS_COMPRESSION_HEADER_LEN (incoming.py:333-334)
DecodeEnd ==
  /\ name_pc = "loop"
  /\ Top.off < Len(data)
  /\ At(data, Top.off) = 0
  /\ frames' = ReplaceTop([Top EXCEPT !.off = Top.off + DNS_COMPRESSION_HEADER_LEN])
  /\ name_pc' = "return"
  /\ UNCHANGED <<rest, offset, name_cache, seen_pointers, original_offset, name_read,
                 reads, cache_before>>

\* the exception e is raised
Raise(e) ==
  /\ name_pc' = "raise"
  /\ name_read' = [name_read EXCEPT !.err = e]

\* the end of the buffer (incoming.py:373), an unknown label type
\* (incoming.py:342-345), a pointer without its second byte (incoming.py:348)
DecodeCorrupt ==
  /\ name_pc = "loop"
  /\ \/ Top.off >= Len(data) /\ Raise("IncomingDecodeError")
     \/ Top.off < Len(data) /\ At(data, Top.off) >= 64 /\ At(data, Top.off) < 192
          /\ Raise("IncomingDecodeError")
     \/ Top.off < Len(data) /\ At(data, Top.off) >= 192 /\ Top.off + 1 >= Len(data)
          /\ Raise("IndexError")
  /\ UNCHANGED <<rest, offset, name_cache, frames, seen_pointers, original_offset, reads,
                 cache_before>>

\* the while loop is at a compression pointer
AtPointer ==
  name_pc = "loop" /\ Top.off + 1 < Len(data) /\ At(data, Top.off) >= 192

\* its target is beyond the packet, itself, or seen (incoming.py:349-360)
DecodePointerRejected ==
  /\ AtPointer
  /\ pointer_rejected(data, Top.off, pointer_link(data, Top.off), seen_pointers)
  /\ Raise("IncomingDecodeError")
  /\ UNCHANGED <<rest, offset, name_cache, frames, seen_pointers, original_offset, reads,
                 cache_before>>

\* labels.extend(linked_labels) in the frame f and what follows
\* (incoming.py:366-371)
ExtendLabels(f, popped, linked_labels) ==
  /\ frames' = popped \o <<[f EXCEPT !.off = f.off + DNS_COMPRESSION_POINTER_LEN,
                                     !.labels = f.labels \o linked_labels]>>
  /\ IF Len(f.labels \o linked_labels) > MAX_DNS_LABELS
       THEN Raise("IncomingDecodeError")
       ELSE name_pc' = "return" /\ UNCHANGED name_read

\* the cache holds the labels of the target (incoming.py:361-362)
DecodePointerCached ==
  /\ AtPointer
  /\ ~pointer_rejected(data, Top.off, pointer_link(data, Top.off), seen_pointers)
  /\ CacheGet(name_cache, pointer_link(data, Top.off)) # <<>>
  /\ ExtendLabels(Top, SubSeq(frames, 1, Len(frames) - 1),
                  CacheGet(name_cache, pointer_link(data, Top.off)))
  /\ UNCHANGED <<rest, offset, name_cache, seen_pointers, original_offset, reads,
                 cache_before>>

\* the cache does not: the target is decoded by a call of its own
\* (incoming.py:362-364), into the list the cache holds when it holds one
DecodePointerFollow ==
  /\ AtPointer
  /\ ~pointer_rejected(data, Top.off, pointer_link(data, Top.off), seen_pointers)
  /\ CacheGet(name_cache, pointer_link(data, Top.off)) = <<>>
  /\ seen_pointers' = seen_pointers \cup {pointer_link(data, Top.off)}
  /\ frames' = Append(frames, [off |-> pointer_link(data, Top.off), labels |-> <<>>,
                               link |-> pointer_link(data, Top.off),
                               cached |-> pointer_link(data, Top.off) \in DOMAIN name_cache])
  /\ UNCHANGED <<rest, offset, name_cache, name_pc, original_offset, name_read, reads,
                 cache_before>>

\* the call for the target returned to the frame of the pointer
\* (incoming.py:365-371)
DecodeReturn ==
  /\ name_pc = "return"
  /\ Len(frames) > 1
  /\ name_cache' = CachePut(name_cache, Top.link, Top.labels)
  /\ ExtendLabels(frames[Len(frames) - 1], SubSeq(frames, 1, Len(frames) - 2), Top.labels)
  /\ UNCHANGED <<rest, offset, seen_pointers, original_offset, reads, cache_before>>

\* _read_name after the call (incoming.py:320-327)
ReadNameReturn ==
  /\ name_pc = "return"
  /\ Len(frames) = 1
  /\ offset' = Top.off
  /\ name_cache' = CachePut(name_cache, original_offset, Top.labels)
  /\ name_read' = IF Len(JoinName(Top.labels)) > MAX_NAME_LENGTH
                    THEN [err |-> "IncomingDecodeError", offset |-> Top.off, name |-> <<>>]
                    ELSE [err |-> "", offset |-> Top.off, name |-> JoinName(Top.labels)]
  /\ frames' = <<>>
  /\ name_pc' = "idle"
  /\ UNCHANGED <<rest, seen_pointers, original_offset, reads, cache_before>>

\* the lists of the frames that the cache holds, as the frames left them
AliasedCache ==
  [o \in DOMAIN name_cache |->
     IF \E i \in 1..Len(frames) : frames[i].cached /\ frames[i].link = o
       THEN frames[CHOOSE i \in 1..Len(frames) : frames[i].cached /\ frames[i].link = o].labels
       ELSE name_cache[o]]

\* the exception leaves every frame and _read_name: nothing catches it there
ReadNameRaise ==
  /\ name_pc = "raise"
  /\ name_cache' = AliasedCache
  /\ name_read' = [name_read EXCEPT !.offset = offset, !.name = <<>>]
  /\ frames' = <<>>
  /\ name_pc' = "idle"
  /\ UNCHANGED <<rest, offset, seen_pointers, original_offset, reads, cache_before>>

NameStep ==
  \/ DecodeLabel
  \/ DecodeEnd
  \/ DecodeCorrupt
  \/ DecodePointerRejected
  \/ DecodePointerCached
  \/ DecodePointerFollow
  \/ DecodeReturn
  \/ ReadNameReturn
  \/ ReadNameRaise

NameNext == ReadNameStart \/ NameStep

\* a call that was started goes on: one thread runs it
NameSpec == NameInit /\ [][NameNext]_vars /\ WF_vars(NameStep)

\* r is what the operator read_name gives for the read that ended
SameAsReadName(r) ==
  /\ name_read = [err |-> r.err, offset |-> r.offset, name |-> r.name]
  /\ name_cache = r.cache
  /\ offset = r.offset

\* the statements give what the operator read_name gives
NameStepsAreReadName ==
  name_pc = "idle" /\ reads > 0
    => SameAsReadName(read_name(data, cache_before, original_offset))

(***************************************************************************)
(* The claims                                                              *)
(***************************************************************************)

\* the caller holds a DNSIncoming: __init__ returned
Constructed == pc = "ready" \/ (pc = "others" /\ caller = "answers")

\* _read_header and _read_questions of this buffer end without an exception
HeaderAndQuestionsOk ==
  /\ CanUnpack(data, 0, 12)
  /\ read_questions(data, <<>>, 12, U16(data, 4)).err = ""

\* C1: at every point after construction, valid is true if and only if the
\* header and the question section were parsed without a decode error; a
\* failure in the record section never leaves valid false, also for a message
\* without questions.
C1_ValidIffHeaderAndQuestions == Constructed => (valid <=> HeaderAndQuestionsOk)

\* C3: constructing a DNSIncoming and every access to answers return
\* normally: no exception reaches the caller.
C3_NoExceptionEscapes == raised = ""

\* C5: when the header or a question fails to parse, valid is false,
\* questions is empty and answers is empty on every later access.
C5_FailedQuestionsDecodeNothing ==
  Constructed /\ ~HeaderAndQuestionsOk
    => ~valid /\ questions = <<>> /\ answers = <<>>
         /\ \A i \in 1..Len(returned) : returned[i] = <<>>

\* the payload r.rec carries, of a record whose prefix gave type_ and length
PayloadExact(rec, type_, length) ==
  /\ type_ = TYPE_A => Len(rec.address) = 4
  /\ type_ = TYPE_AAAA => Len(rec.address) = 16
  /\ type_ = TYPE_TXT => Len(rec.text) = length

EmitsExact(r) ==
  r.rec # <<>> /\ r.type_ \in {TYPE_A, TYPE_AAAA, TYPE_TXT}
    => PayloadExact(r.rec[1], r.type_, r.length)

\* C9: every payload read is bounds-checked: the A record the next iteration
\* emits carries exactly 4 payload bytes, the AAAA record 16, the TXT record
\* rdlength, and never fewer.
C9_PayloadReadsBoundsChecked ==
  pc = "others" /\ remaining > 0 => EmitsExact(read_others_record(data, name_cache, offset))

\* what the iteration of _read_others about to run does when the payload
\* decoder fails, nm being the name at self.offset
PayloadFailureSkipped(nm) ==
  /\ answers' = answers
  /\ offset' = (nm.offset + 10) + U16(data, nm.offset + 8)
  /\ pc' = "others"
  /\ remaining' = remaining - 1
  /\ UNCHANGED <<valid, raised, returned>>

\* the records of message m decoded from scratch
RecordsOf(m) ==
  read_others(m, read_questions(m, <<>>, 12, U16(m, 4)).cache,
              read_questions(m, <<>>, 12, U16(m, 4)).offset,
              U16(m, 6) + U16(m, 8) + U16(m, 10)).answers

\* the message of case c decodes to the records of the message without the
\* corrupt record, which all decode
OthersKept(c) ==
  /\ valid
  /\ answers = RecordsOf(CaseMsg(CaseRest(c)))
  /\ Len(answers) = 3 - c.nq

SectionRead == pc = "ready" /\ did_read_others

\* the payload decoder of the iteration r raised: anything, or one of
\* DECODE_EXCEPTIONS
PayloadFails(r) == r.prefix /\ r.payload_err # ""

PayloadDecodeException(r) == r.prefix /\ r.payload_err \in DECODE_EXCEPTIONS

\* C2: when record k's name and fixed prefix were read and its payload
\* decoder fails, no record is appended, the cursor is set to (offset after
\* the prefix) + rdlength and decoding goes on with record k+1 there; a
\* section in which only record k's payload is corrupt, its rdlength right,
\* yields the other records in wire order and valid true.
C2_PayloadFailureRecovered ==
  /\ [][pc = "others" /\ remaining > 0
          /\ PayloadFails(read_others_record(data, name_cache, offset))
          => PayloadFailureSkipped(read_name(data, name_cache, offset))]_vars
  /\ [](SectionRead /\ id \in CaseIds /\ data = CaseMsg(CaseOf(id)) => OthersKept(CaseOf(id)))

\* The same of the failures that are one of DECODE_EXCEPTIONS, which is what
\* _read_others catches.
DecodeExceptionRecovered ==
  /\ [][pc = "others" /\ remaining > 0
          /\ PayloadDecodeException(read_others_record(data, name_cache, offset))
          => PayloadFailureSkipped(read_name(data, name_cache, offset))]_vars
  /\ [](SectionRead /\ id \in CaseIds /\ data = CaseMsg(CaseOf(id)) => OthersKept(CaseOf(id)))

\* the corrupt second record of three was skipped and the third decoded
DecodeExceptionRecoveredWitness ==
  /\ SectionRead
  /\ id \in CaseIds
  /\ data = CaseMsg(CaseOf(id))
  /\ CaseOf(id).k = 2
  /\ CaseOf(id).nq = 1
  /\ Len(answers) = 2
  /\ valid

\* an access to answers after the record section was read
LaterAccess ==
  SectionRead =>
    /\ UNCHANGED <<offset, answers, name_cache, did_read_others>>
    /\ pc' = "ready"
    /\ returned' = Append(returned, answers)

\* C7: the record section is decoded at most once: every access to answers
\* returns the same records as the first, and an access after the first
\* neither moves the cursor nor appends records, also when the first decode
\* aborted partway.
C7_RecordsDecodedOnce ==
  /\ [][LaterAccess]_vars
  /\ [][pc # "others" /\ pc' = "others" => ~did_read_others]_vars
  /\ [](\A i \in 1..Len(returned) : returned[i] = returned[1])

\* every access returned, the decode having aborted before the last record
C7_Witness ==
  /\ Len(returned) = MaxAccess
  /\ returned[1] # <<>>
  /\ Len(answers) < num_answers + num_authorities + num_additionals
  /\ caller = "answers"

\* the iteration about to run reads the prefix of a record of unknown type
UnknownType(r) == r.prefix /\ r.type_ \notin KnownTypes

UnknownTypeSkipped(nm, r) ==
  UnknownType(r) =>
    /\ answers' = answers
    /\ UNCHANGED <<header, raised, valid>>
    /\ offset' = (nm.offset + 10) + U16(data, nm.offset + 8)
    /\ pc' = "others"
    /\ remaining' = remaining - 1

\* C8: a record of a type other than A, AAAA, CNAME, PTR, TXT, SRV, HINFO,
\* NSEC appends nothing, leaves the records and the header counts unchanged,
\* raises nothing and advances the cursor by rdlength, where the next record
\* is decoded.
C8_UnknownTypeSkipped ==
  [][pc = "others" /\ remaining > 0
       => UnknownTypeSkipped(read_name(data, name_cache, offset),
                             read_others_record(data, name_cache, offset))]_vars

\* a record was decoded right after a skipped record of unknown type with a
\* payload
C8_Witness ==
  /\ data = QueryMsg
  /\ pc = "others"
  /\ remaining = 1
  /\ Len(answers) = 2
  /\ read_others_record(data, name_cache, offset).rec # <<>>

\* the names a record holds
RecordNames(rec) ==
  {rec.name} \cup (IF rec.kind = "DNSPointer" THEN {rec.alias}
                   ELSE IF rec.kind = "DNSService" THEN {rec.server}
                   ELSE IF rec.kind = "DNSNsec" THEN {rec.next_name}
                   ELSE {})

\* r is a read of the name at offset o: a name it returns is within the limits
NameWithinLimits(r, o) ==
  r.err = "" => Len(r.name) <= 253 /\ Len(CacheGet(r.cache, o)) <= 128

\* C6: every name the decoder returns (of a question, of the owner of a
\* record, inside a PTR/CNAME, SRV or NSEC payload) has at most 253 characters
\* with its dots and at most 128 labels; a read of a longer name ends with a
\* decode error.  The names of the questions and records are those the run
\* returned; the read of a name at every offset of every buffer is a function
\* of the buffer, looked at where the run starts.
C6_NamesWithinLimits ==
  /\ \A i \in 1..Len(questions) : Len(questions[i].name) <= 253
  /\ \A i \in 1..Len(answers) : \A n \in RecordNames(answers[i]) : Len(n) <= 253
  /\ pc = "new" => \A o \in 0..Len(data) : NameWithinLimits(read_name(data, name_cache, o), o)

\* a name of 253 characters was returned, and the same name after one more
\* label was rejected
C6_Witness ==
  /\ SectionRead
  /\ \E n \in LastLabels : data = LongOwnerMsg(n)
  /\ Len(answers) = 1
  /\ Len(answers[1].name) = 253
  /\ read_name(data, name_cache, Len(data) - 4).err = "IncomingDecodeError"

\* the decode of the labels at o that uses no cache
FreshLabels(o) == decode_labels_at_offset(data, <<>>, o, <<>>, {})

CacheEntryExact(o, fresh) ==
  name_cache[o] # <<>> => fresh.err = "" /\ fresh.labels = name_cache[o]

SameRead(a, b) == a.err = b.err /\ a.name = b.name /\ a.offset = b.offset

\* C10: every non-empty entry of the name cache at an offset o is the labels
\* that a decode at o without a cache produces; a name read with the cache,
\* through any pointers, is the name read without it, whatever was decoded
\* before.
C10_CacheTransparent ==
  /\ \A o \in DOMAIN name_cache : CacheEntryExact(o, FreshLabels(o))
  /\ \A o \in 0..Len(data) :
       SameRead(read_name(data, name_cache, o), read_name(data, <<>>, o))

\* the owner of the second record was read through two pointers, the second
\* to the cached name of the question
C10_Witness ==
  /\ data = TwoHopMsg
  /\ SectionRead
  /\ Len(answers) = 2
  /\ answers[2].name = questions[1].name
  /\ CacheGet(name_cache, 12) # <<>>
  /\ CacheGet(name_cache, 33) = CacheGet(name_cache, 12)

\* the pointer the running frame is at points to itself or to an offset that
\* this read of a name followed before
PointerRevisits ==
  /\ AtPointer
  /\ \/ pointer_link(data, Top.off) = Top.off
     \/ pointer_link(data, Top.off) \in seen_pointers

\* A number that every statement of a read lowers: the statements that
\* remain are at most one raise, one return per frame, one call per offset not
\* yet in seen_pointers, and between two of these one label per byte up to
\* the last offset a label can end at, Len(data) + 63.
NameRank ==
  IF name_pc = "idle" THEN 0
  ELSE IF name_pc = "raise" THEN 1
  ELSE IF name_pc = "return" THEN 1 + Len(frames)
  ELSE (Len(data) + 4) + (Len(data) + 64) - Top.off
         + (Len(data) + 65) * ((Len(data) + 1) - Cardinality(seen_pointers))

\* C4: decoding a name at any offset of any buffer, with any state of the name
\* cache, terminates: it is never more calls deep than the buffer has offsets,
\* a read that was started is never stuck, and each of its statements lowers
\* a natural number.  A pointer to its own offset, or to an offset followed
\* before in the same read, raises a decode error, and a read that raised
\* returns no name.
C4_NameDecodeTerminates ==
  /\ [](Len(frames) <= Len(data) + 2)
  /\ [](NameRank >= 0)
  /\ [](name_pc # "idle" => ENABLED NameStep)
  /\ [][name_pc # "idle" => NameRank' < NameRank]_vars
  /\ [][PointerRevisits => name_pc' = "raise" /\ name_read'.err = "IncomingDecodeError"]_vars
  /\ [][name_pc = "raise" => name_pc' = "idle" /\ name_read'.err # ""
                             /\ name_read'.name = <<>>]_vars
  /\ [](name_pc = "idle" /\ name_read.err # "" => name_read.name = <<>>)

\* a read that was started ends
NameReadEnds == (name_pc # "idle") ~> (name_pc = "idle")

\* the last read ended with a decode error after its pointers led back to
\* the offset it started at
C4_Witness ==
  /\ name_pc = "idle"
  /\ reads = MaxReads
  /\ name_read.err = "IncomingDecodeError"
  /\ name_read.name = <<>>
  /\ original_offset \in seen_pointers
  /\ Cardinality(seen_pointers) = 2
====
